---- MODULE Spec2Model ----
(***************************************************************************)
(* StarryPy3k: the dispatch pipeline (PluginManager.do), the decode cache  *)
(* (PacketParser) and the connection life cycle (Client, ServerFactory).   *)
(*                                                                         *)
(* SpecDo drives PluginManager.do, PacketParser.parse and the reaper on    *)
(* single frames and records what each call did.                           *)
(* Spec runs the connections: accept, the upstream connect, the two        *)
(* forwarding loops of each connection, Client.die and kill_all.           *)
(* FairSpec is Spec with the event loop running every task that can run.   *)
(***************************************************************************)
EXTENDS Integers, Sequences, FiniteSets, TLC

\* ------------------------------------------------------------------ bounds
\* Largest sum of the reference counts held in the decode cache.
MaxRefs == 2

\* Connections the server accepts.
MaxConns == 2

\* Sockets opened or asked for (two for each accepted connection) plus
\* packets the peers send, in one run.
MaxLoad == 4

\* Largest sum of the reference counts in the cache when parse is run on
\* its own (SpecParser).
MaxCount == 3

\* ------------------------------------------------------- program constants
\* config["min_cache_size"], the threshold of PacketParser.parse.
MinCacheSize == 2

\* ------------------------------------------------------------ frame types
\* The part of the `packets` table the model uses.
packets ==
  [protocol_request |-> 0, connect_success |-> 3, chat_received |-> 6,
   pause |-> 11, client_connect |-> 12, handshake_response |-> 14,
   fly_ship |-> 16, chat_sent |-> 17, step_update |-> 57]

Types == DOMAIN packets

\* parse_map: TRUE when the type has a decoder, FALSE when the entry is None.
parse_map ==
  [protocol_request |-> TRUE, connect_success |-> TRUE,
   chat_received |-> TRUE, pause |-> FALSE, client_connect |-> TRUE,
   handshake_response |-> FALSE, fly_ship |-> TRUE, chat_sent |-> TRUE, step_update |-> TRUE]

\* Payload contents: one the type's decoder accepts, one it raises on.
Datas == {"ok", "malformed"}

\* Payload sizes on both sides of min_cache_size.
Sizes == {MinCacheSize - 1, MinCacheSize}

\* A packet as read_packet hands it to the loops: no "parsed" key yet.
NoParsed == <<"absent">>

Packets == [type : Types, size : Sizes, data : Datas, parsed : {NoParsed}]

\* packet["original_data"]: header (type id, length) and payload as received.
original_data(packet) == <<packets[packet.type], packet.size, packet.data>>

\* hash(packet["original_data"])
hash(od) == od[1] * 100 + od[2] * 10 + (IF od[3] = "ok" THEN 1 ELSE 0)

\* ---------------------------------------------------------------- plugins
\* Mutant of PluginOrder: the plugins stand in the reverse order.
PluginOrder_Reversed ==
  <<"chat_enhancements", "chat_manager", "general_commands",
    "player_manager">>

\* Activation order of the loaded plugins (insertion order of _plugins).
PluginOrder ==
  <<"player_manager", "general_commands", "chat_manager",
    "chat_enhancements">>

\* detect_overrides: the on_* methods each plugin class defines itself.
Overrides(plugin) ==
  CASE plugin = "player_manager" ->
         {"on_protocol_request", "on_handshake_response",
          "on_client_connect", "on_connect_success", "on_step_update"}
    [] plugin = "general_commands" -> {"on_client_connect"}
    [] plugin = "chat_manager" -> {"on_chat_sent"}
    [] plugin = "chat_enhancements" ->
         {"on_connect_success", "on_chat_received", "on_chat_sent"}
    [] OTHER -> {}

HookName(action) == "on_" \o action

\* What a hook call depends on besides the packet and the connection:
\*   reject       check_bans / check_species raise for this client
\*   known        the player record exists although the client was rejected
\*   maintenance  general_commands.maintenance is on
\*   bypass       the player holds general_commands.maintenance_bypass
\*   command      the chat message starts with the command prefix
\*   muted        chat_manager.mute_check(player)
\*   named        a received chat message names a sender other than "server"
\*   ignored      chat_enhancements.check_ignored(player, sender)
\*   joined       a received chat message is the server's notice that a known
\*                player has connected or disconnected
Envs ==
  [reject : BOOLEAN, known : BOOLEAN, maintenance : BOOLEAN,
   bypass : BOOLEAN, command : BOOLEAN, muted : BOOLEAN, named : BOOLEAN,
   ignored : BOOLEAN, joined : BOOLEAN]

\* The fields of a Client the hooks read and write.
ConnStates ==
  {"None", "VERSION_SENT", "HANDSHAKE_RESPONSE_RECEIVED", "CONNECTED", "CONNECTED_WITH_HEARTBEAT",
   "DISCONNECTED"}

\* Client.__init__: the Client object of a connection just accepted.
\*   player                the attribute `player` is set
\*   client_writer         "None" until the upstream connection is open
\*   writer_closed         calls of _writer.close()
\*   client_writer_closed  calls of _client_writer.close()
\*   removed               calls of factory.remove(self) that returned
NewClient ==
  [state |-> "None", alive |-> TRUE, player |-> FALSE,
   client_writer |-> "None", writer_closed |-> 0,
   client_writer_closed |-> 0, removed |-> 0]

\* `if self._alive:` of Client.die
DieGuard(connection) == connection.alive

\* Client.die raises AttributeError at `self._client_writer.close()` when
\* the upstream connection was never opened.
DieRaises(connection) ==
  DieGuard(connection) /\ connection.client_writer = "None"

\* Client.die reaches `self.factory.remove(self)`.
DieRemoves(connection) ==
  DieGuard(connection) /\ connection.client_writer # "None"

\* Client.die: the Client object afterwards (also when it raised).
die(connection) ==
  IF DieGuard(connection)
    THEN [connection EXCEPT
            !.state = "DISCONNECTED",
            !.alive = FALSE,
            !.writer_closed = @ + 1,
            !.client_writer_closed =
               IF connection.client_writer = "None" THEN @ ELSE @ + 1,
            !.removed = IF connection.client_writer = "None" THEN @ ELSE @ + 1]
    ELSE connection

HookResult(ret, connection) == [ret |-> ret, connection |-> connection]

\* BasePlugin.on_*: the default hook of a plugin that does not override.
BaseHook(connection) == HookResult("True", connection)

\* PlayerManager.on_protocol_request
on_protocol_request(connection) ==
  HookResult("True", [connection EXCEPT !.state = "VERSION_SENT"])

\* PlayerManager.on_handshake_response
on_handshake_response(connection) ==
  HookResult("True",
             [connection EXCEPT !.state = "HANDSHAKE_RESPONSE_RECEIVED"])

\* PlayerManager.on_client_connect
pm_on_client_connect(packet, connection, env) ==
  IF packet.parsed = NoParsed THEN HookResult("Raise", connection)
  ELSE IF env.reject
    THEN HookResult("False", die(connection))
    ELSE HookResult("True", [connection EXCEPT !.player = TRUE])

\* PlayerManager.on_connect_success
on_connect_success(packet, connection) ==
  IF packet.parsed = NoParsed \/ ~connection.player
    THEN HookResult("Raise", connection)
    ELSE HookResult("True", [connection EXCEPT !.state = "CONNECTED"])

\* PlayerManager.on_step_update
on_step_update(connection) ==
  IF connection.state # "CONNECTED_WITH_HEARTBEAT"
    THEN HookResult("True",
                    [connection EXCEPT !.state = "CONNECTED_WITH_HEARTBEAT"])
    ELSE HookResult("True", connection)

\* GeneralCommands.on_client_connect
gc_on_client_connect(packet, connection, env) ==
  IF packet.parsed = NoParsed THEN HookResult("Raise", connection)
  ELSE IF env.maintenance
    THEN IF ~(connection.player \/ env.known)
           THEN HookResult("Raise", connection)
           ELSE IF ~env.bypass THEN HookResult("False", connection)
                ELSE HookResult("True", connection)
    ELSE HookResult("True", connection)

\* ChatManager.on_chat_sent
cm_on_chat_sent(packet, connection, env) ==
  IF packet.parsed = NoParsed THEN HookResult("Raise", connection)
  ELSE IF env.command THEN HookResult("True", connection)
  ELSE IF ~connection.player THEN HookResult("Raise", connection)
  ELSE IF env.muted THEN HookResult("False", connection)
  ELSE HookResult("True", connection)

\* ChatEnhancements.on_connect_success
ce_on_connect_success(connection) == HookResult("True", connection)

\* ChatEnhancements.on_chat_received: sends its own message and returns
\* nothing, or False for an ignored sender.
on_chat_received(packet, connection, env) ==
  IF packet.parsed = NoParsed THEN HookResult("Raise", connection)
  ELSE IF ~env.named THEN HookResult("None", connection)
  ELSE IF ~connection.player THEN HookResult("Raise", connection)
  ELSE IF env.ignored THEN HookResult("False", connection)
  ELSE HookResult("None", connection)

\* ChatEnhancements.on_chat_sent
ce_on_chat_sent(packet, connection, env) ==
  IF packet.parsed = NoParsed THEN HookResult("Raise", connection)
  ELSE IF env.command THEN HookResult("True", connection)
  ELSE IF ~connection.player THEN HookResult("Raise", connection)
  ELSE IF env.muted THEN HookResult("False", connection)
  ELSE HookResult("True", connection)

\* The decoded body after ChatEnhancements.on_chat_received has replaced
\* its message: `data['parsed']['message'] = ...`. The new message does not
\* match the pattern of the notice, so it is not replaced again.
Rewritten(parsed) ==
  IF parsed[Len(parsed)] = "rewritten" THEN parsed
  ELSE Append(parsed, "rewritten")

\* The decoded body of the packet as the hook of a plugin leaves it: the
\* hooks work on the object parse returned.
HookParsed(plugin, action, packet, env) ==
  IF /\ plugin = "chat_enhancements" /\ action = "chat_received"
     /\ packet.parsed # NoParsed /\ env.joined
    THEN Rewritten(packet.parsed)
    ELSE packet.parsed

\* getattr(plugin, "on_%s" % action)(packet, connection)
Hook(plugin, action, packet, connection, env) ==
  IF HookName(action) \notin Overrides(plugin) THEN BaseHook(connection)
  ELSE CASE plugin = "player_manager" /\ action = "protocol_request" ->
              on_protocol_request(connection)
         [] plugin = "player_manager" /\ action = "handshake_response" ->
              on_handshake_response(connection)
         [] plugin = "player_manager" /\ action = "client_connect" ->
              pm_on_client_connect(packet, connection, env)
         [] plugin = "player_manager" /\ action = "connect_success" ->
              on_connect_success(packet, connection)
         [] plugin = "player_manager" /\ action = "step_update" ->
              on_step_update(connection)
         [] plugin = "general_commands" ->
              gc_on_client_connect(packet, connection, env)
         [] plugin = "chat_manager" ->
              cm_on_chat_sent(packet, connection, env)
         [] plugin = "chat_enhancements" /\ action = "connect_success" ->
              ce_on_connect_success(connection)
         [] plugin = "chat_enhancements" /\ action = "chat_received" ->
              on_chat_received(packet, connection, env)
         [] plugin = "chat_enhancements" /\ action = "chat_sent" ->
              ce_on_chat_sent(packet, connection, env)

\* ----------------------------------------------------------- PacketParser
\* res.parse(packet["data"]) of the type's decoder.
Decode(packet) == <<packet.type, packet.data>>

\* The result of the parse functions: the packet, the cache, the number of
\* decoder calls made, and whether an exception left the function.
ParseResult(packet, c, calls, raised) ==
  [packet |-> packet, cache |-> c, calls |-> calls, raised |-> raised]

\* Mutant of _parse_packet: the None entry is handed to the decoder call.
_parse_packet_NoNoneCheck(packet, c) ==
  IF ~parse_map[packet.type] \/ packet.data = "malformed"
    THEN ParseResult(packet, c, 1, TRUE)
    ELSE ParseResult([packet EXCEPT !.parsed = Decode(packet)], c, 1, FALSE)

\* PacketParser._parse_packet
_parse_packet(packet, c) ==
  IF ~parse_map[packet.type]
    THEN ParseResult([packet EXCEPT !.parsed = <<>>], c, 0, FALSE)
    ELSE IF packet.data = "malformed"
      THEN ParseResult(packet, c, 1, TRUE)
      ELSE ParseResult([packet EXCEPT !.parsed = Decode(packet)], c, 1, FALSE)

\* Mutant of CachedPacket: a new entry starts with no reference.
CachedPacket_Zero(packet) == [count |-> 0, parsed |-> packet.parsed]

\* CachedPacket.__init__
CachedPacket(packet) == [count |-> 1, parsed |-> packet.parsed]

\* Mutant of _parse_and_cache_packet: the packet is stored before it is
\* decoded, so that it stays in the cache when the decoder raises.
_parse_and_cache_packet_StoreFirst(packet, c) ==
  LET r == _parse_packet(packet, c)
      h == hash(original_data(packet))
  IN ParseResult(r.packet,
                 [k \in DOMAIN c \cup {h} |->
                    IF k = h THEN CachedPacket(r.packet) ELSE c[k]],
                 r.calls, r.raised)

\* Mutant of _parse_and_cache_packet: the decoded packet is not stored.
_parse_and_cache_packet_NoStore(packet, c) == _parse_packet(packet, c)

\* PacketParser._parse_and_cache_packet
_parse_and_cache_packet(packet, c) ==
  LET r == _parse_packet(packet, c)
      h == hash(original_data(packet))
  IN IF r.raised THEN r
     ELSE ParseResult(r.packet,
                      [k \in DOMAIN c \cup {h} |->
                         IF k = h THEN CachedPacket(r.packet) ELSE c[k]],
                      r.calls, FALSE)

\* Mutant of parse: the cache is used whatever the size.
parse_AlwaysCache(packet, c) ==
  LET h == hash(original_data(packet))
      r == IF h \in DOMAIN c
             THEN ParseResult([packet EXCEPT !.parsed = c[h].parsed],
                              [c EXCEPT ![h].count = @ + 1], 0, FALSE)
             ELSE _parse_and_cache_packet(packet, c)
  IN [r EXCEPT !.raised = FALSE]

\* PacketParser.parse: an exception is printed and the packet returned as
\* it is.
parse(packet, c) ==
  LET h == hash(original_data(packet))
      r == IF packet.size >= MinCacheSize
             THEN IF h \in DOMAIN c
                    THEN ParseResult([packet EXCEPT !.parsed = c[h].parsed],
                                     [c EXCEPT ![h].count = @ + 1], 0, FALSE)
                    ELSE _parse_and_cache_packet(packet, c)
             ELSE _parse_packet(packet, c)
  IN [r EXCEPT !.raised = FALSE]

\* Mutant of ReapCount: a sweep takes two references.
ReapCount_Two(n) == n - 2

\* `cached_packet.count -= 1`
ReapCount(n) == n - 1

\* Mutant of Evicts: an entry is deleted only below zero.
Evicts_BelowZero(n) == n < 0

\* `if cached_packet.count <= 0: del (self._cache[h])`
Evicts(n) == n <= 0

\* Mutant of _reap: the sweep iterates the dict it deletes from and passes
\* over an entry.
_reap_NoSnapshot(c) ==
  LET skipped == IF Cardinality(DOMAIN c) >= 2
                   THEN {CHOOSE k \in DOMAIN c : TRUE} ELSE {}
      kept == {k \in DOMAIN c :
                 k \in skipped \/ ~Evicts(ReapCount(c[k].count))}
  IN [k \in kept |-> IF k \in skipped THEN c[k]
                     ELSE [c[k] EXCEPT !.count = ReapCount(@)]]

\* One sweep of PacketParser._reap over a copy of the cache.
_reap(c) ==
  LET kept == {k \in DOMAIN c : ~Evicts(ReapCount(c[k].count))}
  IN [k \in kept |-> [c[k] EXCEPT !.count = ReapCount(@)]]

RECURSIVE SumCounts(_, _)
SumCounts(c, keys) ==
  IF keys = {} THEN 0
  ELSE LET k == CHOOSE x \in keys : TRUE
       IN c[k].count + SumCounts(c, keys \ {k})

\* Sum of the reference counts in the cache.
CacheRefs(c) == SumCounts(c, DOMAIN c)

\* ---------------------------------------------------------- PluginManager
\* `if not (yield from p(packet, connection))`: None is falsy.
Truthy(ret) == ret = "True"

\* Mutant of NextFlag: the last hook's result replaces the flag.
NextFlag_LastWins(send_flag, ret) == Truthy(ret)

\* send_flag after one more hook result.
NextFlag(send_flag, ret) == IF Truthy(ret) THEN send_flag ELSE FALSE

\* The for loop of do goes on to the next plugin unless the hook raised.
Continues(ret) == ret # "Raise"

\* Mutant of Overridden: do never takes the early return.
Overridden_Always(action, ovr) == TRUE

\* `("on_%s" % action) in self._overrides`
Overridden(action, ovr) == HookName(action) \in ovr

\* The for loop of PluginManager.do from plugin i on.
\* acc: send_flag, the plugins called, what each call returned, whether a
\* call raised, and the connection as the hooks left it.
\* (Hook results and accumulators are bound by \in so that they are
\* evaluated once.)
RECURSIVE RunHooks(_, _, _, _, _)
RECURSIVE AfterHook(_, _, _, _, _, _)
AfterHook(i, action, packet, env, acc, h) ==
  LET called == [acc EXCEPT !.invoked = Append(@, PluginOrder[i]),
                            !.outs = Append(@, h.ret),
                            !.connection = h.connection,
                            !.parsed = HookParsed(PluginOrder[i], action,
                                                  packet, env)]
  IN IF Continues(h.ret)
       THEN RunHooks(i + 1, action,
                     [packet EXCEPT !.parsed = called.parsed], env,
                     [called EXCEPT !.send_flag = NextFlag(@, h.ret)])
       ELSE [called EXCEPT !.raised = TRUE]

RunHooks(i, action, packet, env, acc) ==
  IF i > Len(PluginOrder) THEN acc
  ELSE CHOOSE out \in
         UNION {{AfterHook(i, action, packet, env, a, h) :
                   h \in {Hook(PluginOrder[i], action, packet,
                               a.connection, env)}} :
                a \in {acc}} : TRUE

\* The cache after the hooks: CachedPacket keeps the packet object itself
\* and a hit hands out the cached body, so the body the hooks worked on is
\* the body in the cache.
Shared(p, parsed) ==
  LET h == hash(original_data(p.packet))
  IN IF h \in DOMAIN p.cache
       THEN [p.cache EXCEPT ![h].parsed = parsed]
       ELSE p.cache

\* Mutant of DoResult: a hook that raised vetoes the frame.
DoResult_RaiseVetoes(p, r) ==
  [ret |-> IF r.raised THEN FALSE ELSE r.send_flag,
   invoked |-> r.invoked, outs |-> r.outs,
   connection |-> r.connection, cache |-> Shared(p, r.parsed),
   calls |-> p.calls, packet |-> p.packet]

\* What do returns after parse returned p and the for loop ended with r.
DoResult(p, r) ==
  [ret |-> IF r.raised THEN TRUE ELSE r.send_flag,
   invoked |-> r.invoked, outs |-> r.outs,
   connection |-> r.connection, cache |-> Shared(p, r.parsed),
   calls |-> p.calls, packet |-> p.packet]

\* PluginManager.do
do(connection, action, packet, env, ovr, c) ==
  IF Overridden(action, ovr)
    THEN CHOOSE out \in
           UNION {{DoResult(p, r) :
                     r \in {RunHooks(1, action, p.packet, env,
                                     [send_flag |-> TRUE, invoked |-> <<>>,
                                      outs |-> <<>>, raised |-> FALSE,
                                      connection |-> connection,
                                      parsed |-> p.packet.parsed])}} :
                  p \in {parse(packet, c)}} : TRUE
    ELSE [ret |-> TRUE, invoked |-> <<>>, outs |-> <<>>,
          connection |-> connection, cache |-> c, calls |-> 0,
          packet |-> packet]

\* Mutant of UnionOverrides: each plugin's set replaces the set so far.
UnionOverrides_Replaced(active, i) ==
  IF active = <<>> THEN {} ELSE Overrides(active[Len(active)])

\* get_overrides: `overrides.update(...)` for the activated plugins from
\* the i-th on.
RECURSIVE UnionOverrides(_, _)
UnionOverrides(active, i) ==
  IF i > Len(active) THEN {}
  ELSE Overrides(active[i]) \cup UnionOverrides(active, i + 1)

\* ------------------------------------------------- resolve_dependencies
\* The depends attribute of the plugin classes (BasePlugin's is empty).
depends(plugin) ==
  CASE plugin = "player_manager" -> {}
    [] plugin = "general_commands" -> {"command_dispatcher", "player_manager"}
    [] plugin = "chat_manager" -> {"player_manager", "command_dispatcher"}
    [] plugin = "chat_enhancements" ->
         {"player_manager", "command_dispatcher", "chat_manager"}

\* The plugin classes resolve_dependencies is checked on: every set of
\* classes named A, B, C whose depends name each other or the name Z that
\* no class has.
ClassNames == {"A", "B", "C"}
NoClass == "Z"
SeenClasses ==
  UNION {[S -> SUBSET (ClassNames \cup {NoClass})] : S \in SUBSET ClassNames}

Range(s) == {s[i] : i \in DOMAIN s}

\* The orders in which a dict built from the set _seen_classes can iterate.
DictOrders(names) ==
  {o \in [1..Cardinality(names) -> names] : Range(o) = names}

\* Mutant of Ready: every class left counts as ready.
Ready_All(order, deps) == SelectSeq(order, LAMBDA x : x \in DOMAIN deps)

\* `ready = [x for x, d in deps.items() if len(d) == 0]`
Ready(order, deps) ==
  SelectSeq(order, LAMBDA x : x \in DOMAIN deps /\ deps[x] = {})

\* Mutant of Pending: the loaded names are not taken out.
Pending_Kept(d, keys) == d

\* `deps[name] = deps[name].difference(set(self._plugins.keys()))`
Pending(d, keys) == d \ keys

\* Mutant of Stuck: an iteration that loads nothing does not raise.
Stuck_Never(ready) == FALSE

\* `if len(ready) == 0: raise ImportError(...)`
Stuck(ready) == Len(ready) = 0

\* `to_load = depends & set(self._plugins.keys())`, for every class still
\* in deps: the keys the second for loop of an iteration assigns.
ToLoad(deps, ready, loaded) ==
  UNION {deps[name] \cap Range(loaded) : name \in DOMAIN deps \ Range(ready)}

\* The while loop of resolve_dependencies: deps iterates in `order`,
\* plugins is _plugins in insertion order, refs the keys of the dict
\* `classes[name].plugins`, rounds the iterations made so far. The loop is
\* followed for Len(order) + 2 iterations; a run that needs more is handed
\* back as neither resolved nor raised.
RECURSIVE ResolveLoop(_, _, _, _, _)
ResolveLoop(order, deps, plugins, refs, rounds) ==
  IF DOMAIN deps = {}
    THEN [_plugins |-> plugins, _resolved |-> TRUE, raised |-> FALSE,
          refs |-> refs, rounds |-> rounds]
  ELSE IF rounds >= Len(order) + 2
    THEN [_plugins |-> plugins, _resolved |-> FALSE, raised |-> FALSE,
          refs |-> refs, rounds |-> rounds]
  ELSE LET ready == Ready(order, deps)
           loaded == plugins \o ready
           rest == [name \in DOMAIN deps \ Range(ready) |->
                      Pending(deps[name], Range(loaded))]
           assigned == refs \cup ToLoad(deps, ready, loaded)
       IN IF Stuck(ready)
            THEN [_plugins |-> loaded, _resolved |-> FALSE, raised |-> TRUE,
                  refs |-> assigned, rounds |-> rounds + 1]
            ELSE ResolveLoop(order, rest, loaded, assigned, rounds + 1)

\* ------------------------------------------------------------------ state
VARIABLES
  seen_classes,    \* PluginManager._seen_classes: name -> depends
  _plugins,        \* PluginManager._plugins: the names in insertion order
  _resolved,       \* PluginManager._resolved
  import_error,    \* resolve_dependencies raised ImportError
  BasePlugin_plugins, \* the keys of the dict BasePlugin.plugins
  rounds,          \* iterations of the while loop of resolve_dependencies
  activated,       \* the plugins activate() was called on, in call order
  deactivated,     \* the plugins deactivate() was called on, in call order
  phase            \* "construct": in ServerFactory.__init__; "listening":
                   \* the server runs; "exited": sys.exit() in __init__;
                   \* "stopped": deactivate_all has run in __main__

VARIABLES
  overrides,       \* PluginManager._overrides
  override_cache,  \* TRUE once _override_cache is _activated_plugins
  cache,           \* PacketParser._cache: hash -> [count, parsed]
  dlog             \* what the last check_plugins call of a loop did

VARIABLES
  connections,     \* ServerFactory.connections
  clients,         \* the Client object of each connection
  loops,           \* where server_loop (TO_SERVER) and client_loop
                   \* (TO_CLIENT) of each connection stand
  cancelling,      \* client_loop.cancel() was called, CancelledError is due
  undrained,       \* a loop has written a packet and not yet drained
  inbuf,           \* packets received on a socket and not yet read
  eof,             \* the peer has closed its end of a socket
  arrived,         \* every packet a peer has sent, in order
  rlog,            \* the packets a loop decided on, with the verdicts
  wlog,            \* what a loop passed to write / write_client
  shutting_down,   \* loop.shutting_down
  kill             \* the kill_all task: its place, its for-iterator and
                   \* the connection whose drain it waits for

resVars ==
  <<seen_classes, _plugins, _resolved, import_error, BasePlugin_plugins,
    rounds, activated, deactivated, phase>>

doVars == <<overrides, override_cache, cache, dlog>>

connVars ==
  <<connections, clients, loops, cancelling, undrained, inbuf, eof, arrived,
    rlog, wlog, shutting_down, kill>>

vars == <<resVars, doVars, connVars>>

Conns == 1..MaxConns

\* Direction: server_listener reads TO_SERVER, client_listener TO_CLIENT.
Dirs == {"TO_SERVER", "TO_CLIENT"}

\* The hook inputs that matter for a packet type (the others are fixed, and
\* so is an input in the cases in which no hook reads it).
EnvsFor(type) ==
  LET on(t) == IF type = t THEN BOOLEAN ELSE {FALSE}
  IN {e \in [reject : on("client_connect"), known : on("client_connect"),
              maintenance : on("client_connect"),
              bypass : on("client_connect"),
              command : on("chat_sent"), muted : on("chat_sent"),
              named : on("chat_received"), ignored : on("chat_received"),
              joined : on("chat_received")] :
        /\ e.joined => ~e.named
        /\ e.ignored => e.named
        /\ e.known \/ e.bypass => e.maintenance
        /\ e.muted => ~e.command}

\* Whether the connection has a player matters to these hooks only.
PlayersFor(type) ==
  IF type \in {"connect_success", "chat_sent", "chat_received"}
    THEN BOOLEAN ELSE {FALSE}

\* A live connection with its upstream open, as a hook of SpecDo sees it.
DoConn(player) ==
  [NewClient EXCEPT !.player = player, !.client_writer = "open"]

InitConn ==
  /\ connections = <<>>
  /\ clients = [c \in Conns |-> NewClient]
  /\ loops = [c \in Conns |-> [d \in Dirs |-> "none"]]
  /\ cancelling = [c \in Conns |-> FALSE]
  /\ undrained = [c \in Conns |-> [d \in Dirs |-> FALSE]]
  /\ inbuf = [c \in Conns |-> [d \in Dirs |-> <<>>]]
  /\ eof = [c \in Conns |-> [d \in Dirs |-> FALSE]]
  /\ arrived = [c \in Conns |-> [d \in Dirs |-> <<>>]]
  /\ rlog = [c \in Conns |-> [d \in Dirs |-> <<>>]]
  /\ wlog = [c \in Conns |-> [d \in Dirs |-> <<>>]]
  /\ shutting_down = FALSE
  /\ kill = [pc |-> "idle", idx |-> 0, cur |-> 0]

InitDo ==
  /\ overrides = {}
  /\ override_cache = FALSE
  /\ cache = <<>>
  /\ dlog = [seq |-> 0, action |-> "pause", size |-> MinCacheSize - 1,
             data |-> "ok", overridden |-> FALSE, invoked |-> <<>>, outs |-> <<>>, ret |-> TRUE,
             calls |-> 0, parsed |-> NoParsed, written |-> <<>>]

\* The process once ServerFactory is constructed and the loop starts.
\* PluginManager after load_from_path and resolve_dependencies have run on
\* the plugins of PluginOrder.
InitPlugins ==
  /\ seen_classes = [p \in Range(PluginOrder) |->
                       depends(p) \cap Range(PluginOrder)]
  /\ _plugins = PluginOrder
  /\ _resolved = TRUE
  /\ import_error = FALSE
  /\ \E r \in {ResolveLoop(PluginOrder, seen_classes, <<>>, {}, 0)} :
       /\ BasePlugin_plugins = r.refs
       /\ rounds = r.rounds
  /\ activated = PluginOrder
  /\ deactivated = <<>>
  /\ phase = "listening"

Init == InitPlugins /\ InitDo /\ InitConn

\* PluginManager.get_overrides, the task ServerFactory.__init__ creates.
get_overrides ==
  /\ phase = "listening"
  /\ ~override_cache
  /\ overrides' = UnionOverrides(activated, 1)
  /\ override_cache' = TRUE
  /\ UNCHANGED <<cache, dlog, connVars, resVars>>

\* One pass of a forwarding loop's body on a packet just read:
\* `if (yield from self.check_plugins(packet)): write(packet)`.
check_plugins(packet, player, env) ==
  \E r \in {do(DoConn(player), packet.type, packet, env, overrides, cache)} :
     /\ CacheRefs(r.cache) <= MaxRefs
     /\ cache' = r.cache
     /\ dlog' = [seq |-> 1 - dlog.seq, action |-> packet.type,
                 size |-> packet.size, data |-> packet.data,
                 overridden |-> HookName(packet.type) \in overrides,
                 invoked |-> r.invoked, outs |-> r.outs, ret |-> r.ret,
                 calls |-> r.calls, parsed |-> r.packet.parsed,
                 written |-> IF r.ret THEN <<original_data(packet)>>
                                      ELSE <<>>]
     /\ UNCHANGED <<overrides, override_cache, connVars, resVars>>

\* One sweep of the reaper task.
Reap ==
  /\ cache # <<>>
  /\ cache' = _reap(cache)
  /\ UNCHANGED <<overrides, override_cache, dlog, connVars, resVars>>

NextDo ==
  \/ get_overrides
  \/ \E packet \in Packets :
       \E player \in PlayersFor(packet.type), env \in EnvsFor(packet.type) :
          check_plugins(packet, player, env)
  \/ Reap

SpecDo == Init /\ [][NextDo]_vars

\* The reaper task wakes up every packet_reap_time seconds.
FairSpecDo == SpecDo /\ WF_vars(Reap)

\* ------------------------------------------------ the parser on its own
\* PacketParser.parse called on a packet, as do calls it for a hooked type.
parse_packet(packet) ==
  /\ \E r \in {parse(packet, cache)} :
       /\ CacheRefs(r.cache) <= MaxCount
       /\ cache' = r.cache
  /\ UNCHANGED <<overrides, override_cache, dlog, connVars, resVars>>

NextParser ==
  \/ \E packet \in Packets : parse_packet(packet)
  \/ Reap

SpecParser == Init /\ [][NextParser]_vars

\* --------------------------------------------- the resolver on its inputs
\* PluginManager after load_from_path has seen some classes.
InitResolve ==
  /\ seen_classes \in SeenClasses
  /\ _plugins = <<>>
  /\ _resolved = FALSE
  /\ import_error = FALSE
  /\ BasePlugin_plugins = {}
  /\ rounds = 0
  /\ activated = <<>>
  /\ deactivated = <<>>
  /\ phase = "construct"
  /\ InitDo
  /\ InitConn

\* PluginManager.resolve_dependencies
resolve_dependencies ==
  /\ phase = "construct"
  /\ ~_resolved
  /\ ~import_error
  /\ rounds = 0
  /\ \E order \in DictOrders(DOMAIN seen_classes) :
       \E r \in {ResolveLoop(order, seen_classes, _plugins,
                              BasePlugin_plugins, 0)} :
          /\ _plugins' = r._plugins
          /\ _resolved' = r._resolved
          /\ import_error' = r.raised
          /\ BasePlugin_plugins' = r.refs
          /\ rounds' = r.rounds
  /\ UNCHANGED <<seen_classes, activated, deactivated, phase, doVars,
                 connVars>>

\* Mutant of activate_all: it runs although resolve_dependencies raised.
activate_all_AfterRaise ==
  /\ phase = "construct"
  /\ _resolved \/ import_error
  /\ activated' = _plugins
  /\ phase' = "listening"
  /\ UNCHANGED <<seen_classes, _plugins, _resolved, import_error,
                 BasePlugin_plugins, rounds, deactivated, doVars, connVars>>

\* ServerFactory.__init__ after resolve_dependencies has returned:
\* PluginManager.activate_all calls activate() on _plugins.values() in
\* order; the constructor returns and __main__ starts the server.
activate_all ==
  /\ phase = "construct"
  /\ _resolved
  /\ activated' = _plugins
  /\ phase' = "listening"
  /\ UNCHANGED <<seen_classes, _plugins, _resolved, import_error,
                 BasePlugin_plugins, rounds, deactivated, doVars, connVars>>

\* ServerFactory.__init__, `except Exception: loop.stop(); sys.exit()`:
\* the ImportError of resolve_dependencies ends the process.
startup_failed ==
  /\ phase = "construct"
  /\ import_error
  /\ phase' = "exited"
  /\ UNCHANGED <<seen_classes, _plugins, _resolved, import_error,
                 BasePlugin_plugins, rounds, activated, deactivated, doVars,
                 connVars>>

\* __main__, the finally block once run_until_complete(kill_all) has
\* returned: PluginManager.deactivate_all calls deactivate() on
\* _plugins.values() in order.
deactivate_all ==
  /\ phase = "listening"
  /\ kill.pc = "done"
  /\ deactivated' = _plugins
  /\ phase' = "stopped"
  /\ UNCHANGED <<seen_classes, _plugins, _resolved, import_error,
                 BasePlugin_plugins, rounds, activated, doVars, connVars>>


\* ------------------------------------------------- Client, ServerFactory
\* The packets the peers send in Spec: well formed, below min_cache_size.
SentTypes(d) ==
  IF d = "TO_SERVER"
    THEN {"client_connect", "handshake_response", "step_update"}
  ELSE {"connect_success"}

SentPackets(d) ==
  {p \in Packets :
     p.type \in SentTypes(d) /\ p.size < MinCacheSize /\ p.data = "ok"}

\* The process has not died of an exception that left kill_all.
Running == kill.pc # "crashed"

\* ServerFactory.remove: list.remove(connection)
remove(conns, c) == SelectSeq(conns, LAMBDA x : x # c)

\* Mutant of write_data: the frame is built again from the decoded body.
write_data_Rebuilt(packet) ==
  <<packets[packet.type], Len(packet.parsed), packet.data>>

\* Client.write / Client.write_client: the bytes handed to the writer.
write_data(packet) == original_data(packet)

\* Mutant of AfterWrite: the loop does not wait for the drain.
AfterWrite_NoDrain == "read"

\* Client.write / client_raw_write: after writer.write the loop waits in
\* `yield from ....drain()`.
AfterWrite == "drain"

\* The pcs at which a loop task is suspended inside its try block.
InLoop == {"read", "drain"}

\* Mutant of ReaderClosed: closing a transport does not end its reader.
ReaderClosed_Never(c, d) == FALSE

\* The transport a loop reads from was closed by Client.die.
ReaderClosed(c, d) ==
  IF d = "TO_SERVER" THEN clients[c].writer_closed > 0
  ELSE clients[c].client_writer_closed > 0

\* The transport a loop writes to was closed by Client.die.
WriterClosed(c, d) ==
  IF d = "TO_SERVER" THEN clients[c].client_writer_closed > 0
  ELSE clients[c].writer_closed > 0

\* The socket of direction d exists and its task can still see it.
SocketInUse(c, d) ==
  IF d = "TO_SERVER" THEN loops[c][d] \in InLoop \cup {"open_connection"}
  ELSE loops[c][d] \in InLoop

FramesSent(c) == Len(arrived[c]["TO_SERVER"]) + Len(arrived[c]["TO_CLIENT"])

RECURSIVE TotalFrames(_)
TotalFrames(c) == IF c = 0 THEN 0 ELSE FramesSent(c) + TotalFrames(c - 1)

\* The sockets of the connections accepted and the packets sent so far.
Load ==
  2 * Cardinality({c \in Conns : loops[c]["TO_SERVER"] # "none"})
    + TotalFrames(MaxConns)

\* Where loop d of connection c goes after the body of its while loop:
\* next is "read" (back to `while not loop.shutting_down`), "drain", or
\* "end" (an exception left the try block). Leaving the loop runs the finally
\* block: server_listener cancels client_loop and calls die, client_listener
\* calls die. cl and conns are the Client and the registry as the body left
\* them.
After(c, d, cl, conns, next) ==
  LET ends == next = "end" \/ (next = "read" /\ shutting_down)
  IN /\ clients' = [clients EXCEPT ![c] = IF ends THEN die(cl) ELSE cl]
     /\ connections' =
          IF ends /\ DieRemoves(cl) THEN remove(conns, c) ELSE conns
     /\ loops' = [loops EXCEPT ![c][d] = IF ends THEN "done" ELSE next]
     /\ cancelling' =
          [cancelling EXCEPT
             ![c] = @ \/ (/\ ends /\ d = "TO_SERVER"
                          /\ loops[c]["TO_CLIENT"] \in InLoop)]

\* ServerFactory.__call__ and Client.__init__
Accept(c) ==
  /\ phase = "listening"
  /\ Running /\ override_cache
  /\ kill.pc # "done"
  /\ Load + 2 <= MaxLoad
  /\ loops[c]["TO_SERVER"] = "none"
  /\ \A b \in 1..(c - 1) : loops[b]["TO_SERVER"] # "none"
  /\ clients' = [clients EXCEPT ![c] = NewClient]
  /\ loops' = [loops EXCEPT ![c]["TO_SERVER"] = "open_connection"]
  /\ connections' = Append(connections, c)
  /\ UNCHANGED <<resVars, doVars, cancelling, undrained, inbuf, eof, arrived, rlog,
                 wlog, shutting_down, kill>>

\* server_listener: asyncio.open_connection returns; client_loop is created
\* and the while loop is entered (or left at once when shutting down).
ConnectOk(c) ==
  /\ Running
  /\ loops[c]["TO_SERVER"] = "open_connection"
  /\ LET cl == [clients[c] EXCEPT !.client_writer = "open"]
     IN IF shutting_down
          THEN /\ clients' = [clients EXCEPT ![c] = die(cl)]
               /\ connections' =
                    IF DieRemoves(cl) THEN remove(connections, c)
                    ELSE connections
               /\ loops' = [loops EXCEPT ![c] =
                              [TO_SERVER |-> "done", TO_CLIENT |-> "read"]]
               /\ cancelling' = [cancelling EXCEPT ![c] = TRUE]
          ELSE /\ clients' = [clients EXCEPT ![c] = cl]
               /\ loops' = [loops EXCEPT ![c] =
                              [TO_SERVER |-> "read", TO_CLIENT |-> "read"]]
               /\ UNCHANGED <<connections, cancelling>>
  /\ UNCHANGED <<resVars, doVars, undrained, inbuf, eof, arrived, rlog, wlog,
                 shutting_down, kill>>

\* server_listener: asyncio.open_connection raises. The call is outside the
\* try block: the task ends with the exception and nothing else runs.
ConnectFail(c) ==
  /\ Running
  /\ loops[c]["TO_SERVER"] = "open_connection"
  /\ loops' = [loops EXCEPT ![c]["TO_SERVER"] = "error"]
  /\ UNCHANGED <<resVars, doVars, connections, clients, cancelling, undrained, inbuf,
                 eof, arrived, rlog, wlog, shutting_down, kill>>

\* A peer sends one more packet.
Send(c, d, packet) ==
  /\ Running
  /\ Load < MaxLoad
  /\ SocketInUse(c, d) /\ ~ReaderClosed(c, d) /\ ~eof[c][d]
  /\ inbuf' = [inbuf EXCEPT ![c][d] = Append(@, packet)]
  /\ arrived' = [arrived EXCEPT ![c][d] = Append(@, packet)]
  /\ UNCHANGED <<resVars, doVars, connections, clients, loops, cancelling, undrained,
                 eof, rlog, wlog, shutting_down, kill>>

\* A peer closes its end.
PeerClose(c, d) ==
  /\ Running
  /\ SocketInUse(c, d) /\ ~ReaderClosed(c, d) /\ ~eof[c][d]
  /\ eof' = [eof EXCEPT ![c][d] = TRUE]
  /\ UNCHANGED <<resVars, doVars, connections, clients, loops, cancelling, undrained,
                 inbuf, arrived, rlog, wlog, shutting_down, kill>>

\* A loop task may take its next step: client_loop gets CancelledError
\* instead once it has been cancelled.
MayStep(c, d) == Running /\ ~(d = "TO_CLIENT" /\ cancelling[c])

\* read_packet raises IncompleteReadError: the stream ended.
ReadFail(c, d) ==
  /\ MayStep(c, d)
  /\ loops[c][d] = "read"
  /\ inbuf[c][d] = <<>>
  /\ eof[c][d] \/ ReaderClosed(c, d)
  /\ After(c, d, clients[c], connections, "end")
  /\ UNCHANGED <<resVars, doVars, undrained, inbuf, eof, arrived, rlog, wlog,
                 shutting_down, kill>>

\* One pass of the while body from the return of read_packet to the drain:
\* `packet = yield from read_packet(...)`,
\* `if (yield from self.check_plugins(packet)): yield from self.write...`.
listener_body(c, d, env) ==
  /\ MayStep(c, d)
  /\ loops[c][d] = "read"
  /\ inbuf[c][d] # <<>>
  /\ \E r \in {do(clients[c], Head(inbuf[c][d]).type, Head(inbuf[c][d]), env,
                  overrides, cache)} :
       /\ cache' = r.cache
       /\ rlog' = [rlog EXCEPT
                     ![c][d] = Append(@, <<original_data(r.packet), r.ret>>)]
       /\ wlog' = [wlog EXCEPT
                     ![c][d] = IF r.ret THEN Append(@, write_data(r.packet))
                               ELSE @]
       /\ undrained' = [undrained EXCEPT ![c][d] = r.ret]
       /\ After(c, d, r.connection,
                IF DieRemoves(clients[c]) /\ ~r.connection.alive
                  THEN remove(connections, c) ELSE connections,
                IF r.ret THEN AfterWrite ELSE "read")
  /\ inbuf' = [inbuf EXCEPT ![c][d] = Tail(@)]
  /\ UNCHANGED <<resVars, overrides, override_cache, dlog, eof, arrived,
                 shutting_down, kill>>

\* listener_body with the plugins' view of the world chosen freely.
listener(c, d) ==
  /\ loops[c][d] = "read"
  /\ inbuf[c][d] # <<>>
  /\ \E env \in EnvsFor(Head(inbuf[c][d]).type) : listener_body(c, d, env)

\* `yield from ....drain()` returns, or raises ConnectionResetError when
\* the transport was closed and its connection_lost callback has run.
Drain(c, d) ==
  /\ MayStep(c, d)
  /\ loops[c][d] = "drain"
  /\ undrained' = [undrained EXCEPT ![c][d] = FALSE]
  /\ \E next \in IF WriterClosed(c, d) THEN {"end", "read"} ELSE {"read"} :
       After(c, d, clients[c], connections, next)
  /\ UNCHANGED <<resVars, doVars, inbuf, eof, arrived, rlog, wlog, shutting_down,
                 kill>>

\* client_listener receives the CancelledError of client_loop.cancel().
Cancelled(c) ==
  /\ Running
  /\ cancelling[c]
  /\ loops[c]["TO_CLIENT"] \in InLoop
  /\ After(c, "TO_CLIENT", clients[c], connections, "end")
  /\ undrained' = [undrained EXCEPT ![c]["TO_CLIENT"] = FALSE]
  /\ UNCHANGED <<resVars, doVars, inbuf, eof, arrived, rlog, wlog, shutting_down,
                 kill>>

\* __main__: the signal ends run_forever; loop.shutting_down is set and the
\* kill_all task is started.
Shutdown ==
  /\ phase = "listening"
  /\ override_cache
  /\ kill.pc = "idle"
  /\ shutting_down' = TRUE
  /\ kill' = [pc |-> "for", idx |-> 0, cur |-> 0]
  /\ UNCHANGED <<resVars, doVars, connections, clients, loops, cancelling, undrained,
                 inbuf, eof, arrived, rlog, wlog>>

\* `yield from self._writer.drain()` of raw_write suspends its caller
\* while the transport is open and its peer does not read what is buffered.
DrainWaits(connection) == connection.writer_closed = 0

\* kill_all, the rest of a turn of its for loop once the raw_write calls
\* have returned or raised: they are inside try/except, connection.die() is
\* after it, so that an exception of die ends the task and
\* run_until_complete. The list iterator has moved on by one.
KillTurn(cur) ==
  /\ clients' = [clients EXCEPT ![cur] = die(@)]
  /\ connections' =
       IF DieRemoves(clients[cur]) THEN remove(connections, cur)
       ELSE connections
  /\ kill' = [pc |-> IF DieRaises(clients[cur]) THEN "crashed" ELSE "for",
              idx |-> kill.idx + 1, cur |-> 0]

\* kill_all, one turn of `for connection in self.connections`: the list
\* iterator fetches the element at its index, or ends the loop; the turn
\* runs through when the drains of raw_write return at once, and stops in
\* a drain otherwise.
kill_all ==
  /\ kill.pc = "for"
  /\ IF kill.idx < Len(connections)
       THEN \E cur \in {connections[kill.idx + 1]} :
               \/ KillTurn(cur)
               \/ /\ DrainWaits(clients[cur])
                  /\ kill' = [kill EXCEPT !.pc = "drain", !.cur = cur]
                  /\ UNCHANGED <<connections, clients>>
       ELSE /\ kill' = [kill EXCEPT !.pc = "done"]
            /\ UNCHANGED <<connections, clients>>
  /\ UNCHANGED <<resVars, doVars, loops, cancelling, undrained, inbuf, eof, arrived,
                 rlog, wlog, shutting_down>>

\* The peer of the connection kill_all waits for reads what was written, or
\* the connection is lost: the drain returns or raises inside try/except,
\* and the turn goes on.
kill_all_resumed ==
  /\ kill.pc = "drain"
  /\ KillTurn(kill.cur)
  /\ UNCHANGED <<resVars, doVars, loops, cancelling, undrained, inbuf, eof, arrived,
                 rlog, wlog, shutting_down>>

\* One step of loop d of connection c.
LoopStep(c, d) ==
  \/ ReadFail(c, d)
  \/ listener(c, d)
  \/ Drain(c, d)
  \/ (d = "TO_CLIENT" /\ Cancelled(c))

Next ==
  \/ get_overrides
  \/ \E c \in Conns : Accept(c)
  \/ \E c \in Conns : ConnectOk(c)
  \/ \E c \in Conns : ConnectFail(c)
  \/ \E c \in Conns, d \in Dirs : \E p \in SentPackets(d) : Send(c, d, p)
  \/ \E c \in Conns, d \in Dirs : PeerClose(c, d)
  \/ \E c \in Conns, d \in Dirs : ReadFail(c, d)
  \/ \E c \in Conns, d \in Dirs : listener(c, d)
  \/ \E c \in Conns, d \in Dirs : Drain(c, d)
  \/ \E c \in Conns : Cancelled(c)
  \/ Shutdown
  \/ kill_all
  \/ kill_all_resumed

Spec == Init /\ [][Next]_vars

\* The event loop does not stop while a loop task is ready to run.
FairSpec ==
  Spec /\ WF_vars(\E c \in Conns : \E d \in Dirs : LoopStep(c, d))

\* The event loop also runs the kill_all task while it is ready; nothing
\* makes the peer of a connection read what kill_all has written to it.
FairSpecKill == FairSpec /\ WF_vars(kill_all)

\* The process from ServerFactory() to the end of __main__, with clients
\* that connect and send nothing.
NextResolve ==
  \/ resolve_dependencies
  \/ activate_all
  \/ startup_failed
  \/ get_overrides
  \/ \E c \in Conns : Accept(c)
  \/ Shutdown
  \/ kill_all
  \/ kill_all_resumed
  \/ deactivate_all

SpecResolve == InitResolve /\ [][NextResolve]_vars

\* ---------------------------------------------------- claims under SpecDo
\* A step of check_plugins.
DoStep == dlog'.seq # dlog.seq

NoRaise(outs) == \A i \in 1..Len(outs) : outs[i] # "Raise"

\* C1: for a frame whose hook name is not in _overrides, do returns True at
\* once: the decoder is not called, the cache is unchanged and no hook is
\* invoked.
C1_NotOverriddenSkipsAll ==
  [][(DoStep /\ HookName(dlog'.action) \notin overrides)
       => /\ dlog'.ret = TRUE
          /\ dlog'.calls = 0
          /\ dlog'.parsed = NoParsed
          /\ dlog'.invoked = <<>>
          /\ cache' = cache]_vars

\* Witness of C1: with the overrides computed, a cacheable fly_ship frame
\* (decoder present, hook not overridden) went through and was written.
C1_Witness ==
  /\ override_cache /\ dlog.seq = 1
  /\ dlog.action = "fly_ship" /\ dlog.size >= MinCacheSize
  /\ ~dlog.overridden /\ dlog.ret /\ dlog.written # <<>>

\* C2: for a frame whose hook is overridden and for which no hook raises,
\* the verdict of do is the AND of the results of all plugins' hooks, and a
\* frame with a false verdict is not written by the forwarding loop.
C2_VerdictIsAnd ==
  (dlog.overridden /\ NoRaise(dlog.outs))
    => /\ Len(dlog.outs) = Len(PluginOrder)
       /\ dlog.ret = (\A i \in 1..Len(dlog.outs) : Truthy(dlog.outs[i]))
       /\ (~dlog.ret => dlog.written = <<>>)

\* Witness of C2: the first hook vetoed, the later ones returned True, and
\* the frame was dropped.
C2_Witness ==
  /\ dlog.overridden
  /\ dlog.outs = <<"False", "True", "True", "True">>
  /\ ~dlog.ret /\ dlog.written = <<>>

\* C3 as claimed: for a frame whose hook is overridden, the hook of every
\* active plugin is invoked exactly once, in activation order, whatever the
\* earlier hooks did.
C3_EveryHookInvokedOnce ==
  dlog.overridden => dlog.invoked = PluginOrder

\* C4 as claimed: when a hook raises, the exception counts as True for that
\* hook alone: the hooks of all plugins are still invoked and the verdict is
\* the AND of the other hooks' results.
C4_FailOpenPerHook ==
  (dlog.overridden /\ ~NoRaise(dlog.outs))
    => /\ dlog.invoked = PluginOrder
       /\ dlog.ret = (\A i \in 1..Len(dlog.outs) :
                        dlog.outs[i] \in {"True", "Raise"})

\* ------------------------------------------------------- claims under Spec
\* The frames of a log of <<frame, verdict>> pairs whose verdict was true.
Permitted(log) ==
  LET kept == SelectSeq(log, LAMBDA e : e[2])
  IN [i \in 1..Len(kept) |-> kept[i][1]]

\* C5: in each direction of a connection, the frames passed to the writer
\* of the other socket are exactly the frames read whose verdict was true,
\* in the order read, each once and with its original_data; a frame with a
\* false verdict is never written.
C5_WrittenIsPermittedSubsequence ==
  \A c \in Conns : \A d \in Dirs : wlog[c][d] = Permitted(rlog[c][d])

\* Witness of C5: a loop dropped its first frame and wrote its second while
\* the connection was alive.
C5_Witness ==
  \E c \in Conns : \E d \in Dirs :
     /\ Len(rlog[c][d]) = 2
     /\ ~rlog[c][d][1][2] /\ rlog[c][d][2][2]
     /\ Len(wlog[c][d]) = 1
     /\ clients[c].alive

C7_DieExactlyOnce ==
  \A c \in Conns :
     /\ clients[c].writer_closed <= 1
     /\ clients[c].client_writer_closed <= 1
     /\ clients[c].removed <= 1
     /\ ~clients[c].alive
          => /\ clients[c].writer_closed = 1
             /\ clients[c].client_writer_closed = 1
             /\ clients[c].removed = 1

\* C8 as claimed: when opening the upstream connection has failed, the
\* connection is not Connected, its client socket is closed and it is not
\* in the registry.
C8_ConnectFailureTearsDown ==
  \A c \in Conns :
     loops[c]["TO_SERVER"] = "error"
       => /\ clients[c].state \notin {"CONNECTED", "CONNECTED_WITH_HEARTBEAT"}
          /\ clients[c].writer_closed >= 1
          /\ \A i \in 1..Len(connections) : connections[i] # c

\* A loop task has terminated: it has left its finally block, or the
\* process has exited with the exception that left kill_all.
Terminated(c, d) == loops[c][d] = "done" \/ ~Running

\* Both loops have terminated, both sockets are closed and the connection
\* is out of the registry.
TornDown(c) ==
  /\ \A d \in Dirs : Terminated(c, d)
  /\ clients[c].writer_closed = 1
  /\ clients[c].client_writer_closed = 1
  /\ \A i \in 1..Len(connections) : connections[i] # c

C10_DisconnectedIsTerminal ==
  [][\A c \in Conns :
       clients[c].state = "DISCONNECTED"
         => clients'[c].state = "DISCONNECTED"]_vars

\* --------------------------------------------- claims under SpecDo: cache
\* The fingerprint of the frame the last check_plugins call worked on.
DlogHash(l) == hash(<<packets[l.action], l.size, l.data>>)

\* The frame of a check_plugins step was decoded through the cache: its hook
\* is overridden, its type has a decoder, its size reaches min_cache_size and
\* its bytes are well formed.
CachedDecode(l) ==
  /\ HookName(l.action) \in overrides
  /\ parse_map[l.action]
  /\ l.size >= MinCacheSize
  /\ l.data = "ok"

\* C11: the first decode of a fingerprint calls the decoder once and creates
\* the entry with count 1; each later decode of the same bytes calls no
\* decoder and adds exactly 1 to the count, so two decodes with no sweep in
\* between leave the count at 2 after one decoder call. No other entry
\* changes.
C11_DecodeOnceThenCount ==
  [][(DoStep /\ CachedDecode(dlog'))
       => LET h == DlogHash(dlog')
          IN IF h \in DOMAIN cache
               THEN /\ dlog'.calls = 0
                    /\ DOMAIN cache' = DOMAIN cache
                    /\ cache'[h].count = cache[h].count + 1
                    /\ \A k \in DOMAIN cache \ {h} : cache'[k] = cache[k]
               ELSE /\ dlog'.calls = 1
                    /\ DOMAIN cache' = DOMAIN cache \cup {h}
                    /\ cache'[h].count = 1
                    /\ \A k \in DOMAIN cache : cache'[k] = cache[k]]_vars

\* Witness of C11: the last decode was a hit (no decoder call) and left its
\* entry with count 2.
C11_Witness ==
  /\ dlog.seq = 1 /\ CachedDecode(dlog) /\ dlog.calls = 0
  /\ DlogHash(dlog) \in DOMAIN cache
  /\ cache[DlogHash(dlog)].count = 2
  /\ dlog.parsed = cache[DlogHash(dlog)].parsed

\* A sweep of the reaper.
ReapStep == cache' # cache /\ ~DoStep

\* Every fingerprint a frame of the model can have.
Fingerprints == {hash(original_data(p)) : p \in Packets}

\* A step that creates the entry of fingerprint h or hits it.
Access(h) ==
  /\ h \in DOMAIN cache'
  /\ h \notin DOMAIN cache \/ cache'[h].count > cache[h].count

\* C12: a sweep takes exactly one reference from every entry and evicts
\* exactly the entries whose count was 1, so that an entry with count n and
\* no further hit is present after n-1 sweeps and gone after the n-th; with
\* the reaper scheduled fairly, an entry that is no longer accessed is
\* eventually evicted for good.
C12_EvictedAtNthSweep ==
  /\ [][ReapStep
          => /\ DOMAIN cache' = {k \in DOMAIN cache : cache[k].count > 1}
             /\ \A k \in DOMAIN cache' :
                  cache'[k] = [cache[k] EXCEPT !.count = @ - 1]]_vars
  /\ \A h \in Fingerprints :
       []<><<Access(h)>>_vars \/ <>[](h \notin DOMAIN cache)

\* Witness of C12: the last decode was a hit, which left its entry with a
\* count of at least 2, and the sweeps since have evicted the entry.
C12_Witness ==
  /\ dlog.seq = 1 /\ CachedDecode(dlog) /\ dlog.calls = 0
  /\ cache = <<>>

\* C13: every entry present in the cache has a positive count, under any
\* interleaving of decodes and sweeps.
C13_VisibleIffPositive ==
  \A k \in DOMAIN cache : cache[k].count > 0

\* Witness of C13: the last decode was a hit and a sweep since has brought
\* the entry's count down to 1: the entry is still visible.
C13_Witness ==
  /\ CachedDecode(dlog) /\ dlog.calls = 0
  /\ DlogHash(dlog) \in DOMAIN cache
  /\ cache[DlogHash(dlog)].count = 1

\* ------------------------------------------ claims under SpecResolve
Resolved == _resolved /\ ~import_error

\* Position of a name in _plugins (0 if absent).
Position(name) ==
  IF \E i \in DOMAIN _plugins : _plugins[i] = name
    THEN CHOOSE i \in DOMAIN _plugins : _plugins[i] = name
    ELSE 0

\* C14: when resolve_dependencies has succeeded, _plugins holds every seen
\* plugin name exactly once, and every plugin stands after all the plugins
\* its depends names.
C14_OrderRespectsDepends ==
  Resolved =>
    /\ Range(_plugins) = DOMAIN seen_classes
    /\ Len(_plugins) = Cardinality(DOMAIN seen_classes)
    /\ \A p \in DOMAIN seen_classes :
         \A q \in seen_classes[p] :
            Position(q) > 0 /\ Position(q) < Position(p)

\* {A: [], B: [A], C: [B]} has been resolved to A, B, C.
C14_Witness ==
  /\ Resolved
  /\ seen_classes = [n \in ClassNames |->
                       CASE n = "A" -> {} [] n = "B" -> {"A"}
                         [] n = "C" -> {"B"}]
  /\ _plugins = <<"A", "B", "C">>

\* The names a plugin depends on, directly or through other plugins.
RECURSIVE Closure(_, _, _)
Closure(g, s, k) ==
  IF k = 0 THEN s
  ELSE Closure(g, s \cup UNION {g[m] : m \in s \cap DOMAIN g}, k - 1)

DependsOn(g, n) == Closure(g, g[n], Cardinality(DOMAIN g))

HasCycle(g) == \E n \in DOMAIN g : n \in DependsOn(g, n)

HasUnloaded(g) == \E n \in DOMAIN g : ~(g[n] \subseteq DOMAIN g)

\* C15: resolve_dependencies raises ImportError exactly when the
\* dependency graph has a cycle or a plugin depends on a name that is not
\* loaded, and succeeds on every other input.
C15_FailsIffCycleOrUnloaded ==
  /\ [](_resolved \/ import_error =>
         /\ import_error <=>
              HasCycle(seen_classes) \/ HasUnloaded(seen_classes)
         /\ _resolved <=> ~import_error)
  /\ [][resolve_dependencies => _resolved' \/ import_error']_vars

\* {A: [B], B: [A]} has been rejected.
C15_Witness ==
  /\ import_error
  /\ seen_classes = [n \in {"A", "B"} |-> IF n = "A" THEN {"B"} ELSE {"A"}]

\* C16: when resolve_dependencies fails, no plugin has been instantiated:
\* _plugins is empty.
C16_NothingInstantiatedOnFailure ==
  import_error => _plugins = <<>>

\* {A: [], B: [Z]} has been rejected.
C16_Witness ==
  /\ import_error
  /\ seen_classes = [n \in {"A", "B"} |-> IF n = "A" THEN {} ELSE {"Z"}]

\* ------------------------------------------------- claims under Spec
\* kill_all returns: its for loop has found no further connection.
KillAllCompletes == kill.pc = "for" /\ kill'.pc = "done"

\* C17: when kill_all completes, the registry is empty and every connection
\* that was accepted has had die performed, however many connections were
\* live.
C17_KillAllEmptiesRegistry ==
  [][KillAllCompletes =>
       /\ connections' = <<>>
       /\ \A c \in Conns :
            loops[c]["TO_SERVER"] # "none" => ~clients'[c].alive]_vars

\* kill_all has completed after starting on two live connections.
C17_Witness ==
  /\ kill.pc = "done"
  /\ \A c \in Conns : loops[c]["TO_SERVER"] # "none"
  /\ \E c \in Conns : clients[c].alive /\ clients[c].client_writer = "open"

\* The frame loop d of connection c decides on in this step.
Decided(c, d) == Head(inbuf[c][d])

C19_NoneIsTrue ==
  [][(DoStep /\ \A i \in 1..Len(dlog'.outs) :
                   dlog'.outs[i] \in {"True", "None"})
       => dlog'.ret = TRUE /\ Len(dlog'.written) = 1]_vars

\* A hook returned nothing and the others True.
C19_Witness ==
  /\ dlog.overridden
  /\ \E i \in 1..Len(dlog.outs) : dlog.outs[i] = "None"
  /\ \A i \in 1..Len(dlog.outs) : dlog.outs[i] \in {"True", "None"}

\* The activation orders resolve_dependencies can produce for g.
ActivationOrders(g) ==
  {ResolveLoop(order, g, <<>>, {}, 0)._plugins : order \in DictOrders(DOMAIN g)}

\* C20: the order in which do runs through the plugins is an order
\* resolve_dependencies produces; for every dispatched frame the hooks are
\* invoked along it, one after the other (each has returned when the next is
\* invoked), so that the hook of a plugin Q that P depends on, directly or
\* transitively, is invoked before P's.
C20_HooksInActivationOrder ==
  /\ _plugins \in ActivationOrders(seen_classes)
  /\ [][DoStep =>
          /\ dlog'.invoked = SubSeq(_plugins, 1, Len(dlog'.invoked))
          /\ Len(dlog'.outs) = Len(dlog'.invoked)
          /\ \A i, j \in 1..Len(dlog'.invoked) :
               dlog'.invoked[j] \in DependsOn(seen_classes, dlog'.invoked[i])
                 => j < i]_vars

\* A chat_sent frame went through the hooks of all plugins, chat_manager's
\* before that of chat_enhancements, which depends on it.
C20_Witness ==
  /\ dlog.action = "chat_sent"
  /\ dlog.overridden
  /\ Len(dlog.invoked) = Len(PluginOrder)
  /\ "chat_manager" \in DependsOn(seen_classes, "chat_enhancements")

\* ------------------------------------- claims under Spec: connection state
\* Place of a connection state in the order of the State enumeration
\* (a connection starts with state None, before all of them).
StateRank(state) ==
  CASE state = "None" -> 0
    [] state = "VERSION_SENT" -> 1
    [] state = "HANDSHAKE_RESPONSE_RECEIVED" -> 4
    [] state = "CONNECTED" -> 6
    [] state = "CONNECTED_WITH_HEARTBEAT" -> 7
    [] state = "DISCONNECTED" -> 8

\* C21 as claimed: the state of a connection never moves to an earlier state
\* of the order, whatever frames arrive.
C21_StateNeverMovesBack ==
  [][\A c \in Conns :
       StateRank(clients'[c].state) >= StateRank(clients[c].state)]_vars

\* A live connection in state CONNECTED_WITH_HEARTBEAT has a
\* handshake_response frame waiting to be read.
C21_Witness ==
  \E c \in Conns :
     /\ clients[c].alive
     /\ clients[c].state = "CONNECTED_WITH_HEARTBEAT"
     /\ loops[c]["TO_SERVER"] = "read"
     /\ inbuf[c]["TO_SERVER"] # <<>>
     /\ Head(inbuf[c]["TO_SERVER"]).type = "handshake_response"

\* --------------------------------------- claims under SpecDo: failures
\* The decoder of the frame of a check_plugins step was called and raised.
DecodeFailed(l) ==
  l.overridden /\ parse_map[l.action] /\ l.data = "malformed"

\* C22: when the decoder or a hook has raised for a frame, check_plugins
\* still returns True and the frame's original bytes are handed to the
\* writer: no exception leaves check_plugins, so the loop body ends as for
\* any forwarded frame.
C22_FailuresDoNotStopForwarding ==
  [][(DoStep /\ (DecodeFailed(dlog') \/ ~NoRaise(dlog'.outs)))
       => /\ dlog'.ret = TRUE
          /\ dlog'.written =
               <<(<<packets[dlog'.action], dlog'.size, dlog'.data>>)>>]_vars

\* The decoder raised on a malformed frame, a hook raised on what parse
\* returned, and the frame was written.
C22_Witness ==
  /\ DecodeFailed(dlog)
  /\ dlog.calls = 1
  /\ ~NoRaise(dlog.outs)
  /\ Len(dlog.written) = 1

\* C23 as claimed: when the decoder raises, the frame the hooks receive has
\* the empty body as its parsed value, and the frame is passed on.
C23_DecodeErrorGivesEmptyBody ==
  [][(DoStep /\ DecodeFailed(dlog'))
       => /\ dlog'.parsed = <<>>
          /\ dlog'.ret = TRUE
          /\ Len(dlog'.written) = 1]_vars

\* The decoder raised on a malformed step_update frame and the hooks ran.
C23_Witness ==
  /\ DecodeFailed(dlog)
  /\ dlog.action = "step_update"
  /\ dlog.calls = 1
  /\ Len(dlog.invoked) = Len(PluginOrder)

\* ------------------------------------ claims under SpecDo: cache policy
\* The frame of a check_plugins step was parsed and is below min_cache_size.
SmallDecode(l) == l.overridden /\ l.size < MinCacheSize

\* C24: parsing a frame below min_cache_size leaves the cache as it is (no
\* entry added, no count changed) and calls the type's decoder every time,
\* also when the cache is not empty and the same frame was parsed in the
\* step before.
C24_SmallFramesBypassCache ==
  [][(DoStep /\ SmallDecode(dlog'))
       => /\ cache' = cache
          /\ dlog'.calls = IF parse_map[dlog'.action] THEN 1 ELSE 0]_vars

\* A small chat_sent frame was decoded while the cache held an entry.
C24_Witness ==
  /\ SmallDecode(dlog)
  /\ dlog.action = "chat_sent"
  /\ dlog.data = "ok"
  /\ dlog.calls = 1
  /\ cache # <<>>

\* C25: a sweep decrements by exactly 1 the count of every entry present
\* when it starts and evicts exactly those whose count reaches 0, whatever
\* inserts and hits came before it; a sweep is possible whenever the cache
\* holds an entry.
C25_SweepDecrementsEachOnce ==
  /\ [][ReapStep
          => /\ DOMAIN cache' = {k \in DOMAIN cache : cache[k].count - 1 > 0}
             /\ \A k \in DOMAIN cache' :
                  /\ cache'[k].count = cache[k].count - 1
                  /\ cache'[k].parsed = cache[k].parsed]_vars
  /\ [](cache # <<>> => ENABLED Reap)

\* The entry the last decode hit (two references then) has gone through a
\* sweep and is left with one.
C25_Witness ==
  /\ CachedDecode(dlog)
  /\ dlog.calls = 0
  /\ DlogHash(dlog) \in DOMAIN cache
  /\ cache[DlogHash(dlog)].count = 1

\* C26: the cache holds one entry per fingerprint: a decode of a cacheable
\* well-formed frame leaves an entry for its fingerprint, and as long as the
\* entry is present every decode of that fingerprint is a hit on it: it
\* calls no decoder, hands out the entry's body and adds no second entry.
C26_OneEntryPerFingerprint ==
  [][(DoStep /\ CachedDecode(dlog'))
       => LET h == DlogHash(dlog')
          IN /\ h \in DOMAIN cache'
             /\ h \in DOMAIN cache
                  => /\ dlog'.calls = 0
                     /\ dlog'.parsed = cache[h].parsed
                     /\ DOMAIN cache' = DOMAIN cache]_vars

\* A chat_sent frame was decoded for the second time: the decode was a hit
\* and the cache holds the one entry of its fingerprint.
C26_Witness ==
  /\ CachedDecode(dlog)
  /\ dlog.action = "chat_sent"
  /\ dlog.calls = 0
  /\ DOMAIN cache = {DlogHash(dlog)}
  /\ cache[DlogHash(dlog)].count = 2

\* C27 as claimed: the decoded body handed to the hooks, on a miss and on a
\* hit alike, is what a fresh decode of the frame's payload gives.
C27_HitEqualsFreshDecode ==
  [][(DoStep /\ CachedDecode(dlog'))
       => dlog'.parsed = Decode([type |-> dlog'.action,
                                 size |-> dlog'.size,
                                 data |-> dlog'.data,
                                 parsed |-> NoParsed])]_vars

\* The cache holds a body that a hook has rewritten.
C27_Witness ==
  \E k \in DOMAIN cache :
     cache[k].parsed = Rewritten(Decode([type |-> "chat_received",
                                         size |-> MinCacheSize,
                                         data |-> "ok",
                                         parsed |-> NoParsed]))

\* ------------------------------------------ claims under SpecParser
\* A sweep of the reaper: only a sweep takes references away.
SweepStep == CacheRefs(cache') < CacheRefs(cache)

\* C28 as claimed: an entry survives a sweep only through a hit since the
\* sweep before, so what a sweep leaves in the cache is evicted by the next
\* sweep unless it is hit again: a sweep leaves no entry with more than one
\* reference.
C28_SurvivesOnlyIfHitAgain ==
  [][SweepStep => \A k \in DOMAIN cache' : cache'[k].count <= 1]_vars

\* An entry that was hit twice before a sweep has gone through the sweep.
C28_Witness ==
  \E k \in DOMAIN cache : cache[k].count = 2 /\ CacheRefs(cache) = 2

\* ------------------------------------------- claims under Spec: overrides
\* The plugins activate_all has activated: all of _plugins.
ActivePlugins == Range(_plugins)

C30_ResolveIsDeterministic ==
  Resolved => ActivationOrders(seen_classes) = {_plugins}

\* Two classes without dependencies have been resolved, B before A.
C30_Witness ==
  /\ Resolved
  /\ seen_classes = [n \in {"A", "B"} |-> {}]
  /\ _plugins = <<"B", "A">>

\* ----------------------------- claims under SpecResolve: the life cycle
Reverse(s) == [i \in DOMAIN s |-> s[Len(s) + 1 - i]]

\* C31 as claimed: once the server runs, activate() has been called on
\* every plugin exactly once, in the order of _plugins; once __main__ has
\* shut down, deactivate() has been called on every plugin exactly once, in
\* the reverse of that order.
C31_DeactivateInReverseOrder ==
  /\ phase \in {"listening", "stopped"} => activated = _plugins
  /\ phase = "stopped" => deactivated = Reverse(activated)

\* {A: [], B: [A]} has been shut down: A was deactivated before B, which
\* depends on it.
C31_Witness ==
  /\ phase = "stopped"
  /\ seen_classes = [n \in {"A", "B"} |-> IF n = "A" THEN {} ELSE {"A"}]
  /\ activated = <<"A", "B">>
  /\ deactivated = <<"A", "B">>

\* C32: when resolve_dependencies has raised, activate() is never called on
\* any plugin, no connection is ever accepted and the server never runs:
\* the process is in the constructor or has exited.
C32_NoActivationAfterFailedResolve ==
  import_error =>
    /\ activated = <<>>
    /\ connections = <<>>
    /\ phase \in {"construct", "exited"}

\* {A: [], B: [Z]} was rejected with A instantiated, and the process has
\* exited.
C32_Witness ==
  /\ import_error
  /\ phase = "exited"
  /\ _plugins = <<"A">>
  /\ activated = <<>>

\* `self.plugins` of a plugin: the class attribute BasePlugin.plugins, which
\* no plugin class of the repository rebinds.
PluginsOf(name) == BasePlugin_plugins

\* C36 as claimed: after a successful resolution, the plugins mapping of
\* every plugin holds exactly the plugins its depends names.
C36_PluginsAreExactlyDepends ==
  Resolved => \A name \in Range(_plugins) : PluginsOf(name) = seen_classes[name]

\* {A: [], B: [A]} has been resolved: A, which depends on nothing, reaches
\* A through its plugins mapping.
C36_Witness ==
  /\ Resolved
  /\ seen_classes = [n \in {"A", "B"} |-> IF n = "A" THEN {} ELSE {"A"}]
  /\ PluginsOf("A") = {"A"}

\* C37: resolve_dependencies ends, having resolved or raised, after at most
\* (number of classes + 1) iterations of its loop: every iteration but a
\* raising last one has instantiated at least one more plugin.
C37_ResolveTerminates ==
  /\ rounds <= Cardinality(DOMAIN seen_classes) + 1
  /\ rounds <= Len(_plugins) + (IF import_error THEN 1 ELSE 0)
  /\ rounds > 0 => _resolved \/ import_error

\* {A: [], B: [A], C: [Z]} was rejected in the third iteration, after A
\* and B were instantiated one per iteration.
C37_Witness ==
  /\ import_error
  /\ rounds = 3
  /\ _plugins = <<"A", "B">>

\* ------------------------------ claims under SpecDo: failed decodes
\* C40: when the decoder raises on a frame of min_cache_size or more, the
\* cache is left as it was: no entry is made for the frame's fingerprint and
\* no other entry changes, so the frame is never a hit: its decoder is
\* called every time.
C40_FailedDecodeNotCached ==
  [][(DoStep /\ DecodeFailed(dlog') /\ dlog'.size >= MinCacheSize)
       => /\ cache' = cache
          /\ DlogHash(dlog') \notin DOMAIN cache'
          /\ dlog'.calls = 1]_vars

\* The decoder raised on a malformed frame of cacheable size while the
\* cache held an entry.
C40_Witness ==
  /\ DecodeFailed(dlog)
  /\ dlog.size >= MinCacheSize
  /\ dlog.calls = 1
  /\ DOMAIN cache # {}

\* ------------------------------------- claims under Spec: teardown
\* The connection is in ServerFactory.connections.
Registered(c) == \E i \in 1..Len(connections) : connections[i] = c

\* The connection was accepted: its Client object exists.
Accepted(c) == loops[c]["TO_SERVER"] # "none"

\* die takes effect on connection c in this step.
DieStep(c) == Accepted(c) /\ clients[c].alive /\ ~clients'[c].alive

\* Loop d of connection c has ended or has been cancelled.
LoopStopped(c, d) ==
  \/ loops[c][d] \notin InLoop \cup {"open_connection"}
  \/ d = "TO_CLIENT" /\ cancelling[c]

\* C33 as claimed: a step in which die takes effect on a live connection
\* leaves both its sockets closed, both its loop tasks ended or cancelled
\* and the connection out of the registry, whoever called die.
C33_DieClosesCancelsRemoves ==
  [][\A c \in Conns :
       DieStep(c)
         => /\ clients'[c].writer_closed = 1
            /\ clients'[c].client_writer_closed = 1
            /\ ~Registered(c)'
            /\ \A d \in Dirs : LoopStopped(c, d)']_vars

\* A hook has called die on a connection outside shutdown: the sockets are
\* closed and the connection is out of the registry, and both its loops
\* are still inside their while loops with no cancellation pending.
C33_Witness ==
  \E c \in Conns :
     /\ ~shutting_down
     /\ ~clients[c].alive
     /\ clients[c].removed = 1
     /\ ~Registered(c)
     /\ \A d \in Dirs : loops[c][d] \in InLoop
     /\ ~cancelling[c]

\* C34 as claimed: once shutdown has begun, kill_all ends, and every
\* connection in the registry is torn down (or the process has ended),
\* also when the drain of a notice written to one connection never
\* returns.
C34_KillAllNeverBlocks ==
  /\ shutting_down ~> (kill.pc \in {"done", "crashed"})
  /\ \A c \in Conns :
       (shutting_down /\ Registered(c)) ~> (~clients[c].alive \/ ~Running)

\* kill_all waits in the drain of the first connection while a second
\* live connection, which it has not reached, is in the registry.
C34_Witness ==
  /\ kill.pc = "drain"
  /\ kill.idx = 0
  /\ Len(connections) = 2
  /\ \A c \in Conns : clients[c].alive /\ clients[c].client_writer = "open"

\* A connection-level failure of connection c happens in this step: one of
\* its loops ends (read failure, exception, end of the while loop) or its
\* upstream connect fails, or die takes effect on it.
FailureStep(c) ==
  \/ \E d \in Dirs :
        /\ loops[c][d] \in InLoop \cup {"open_connection"}
        /\ loops'[c][d] \in {"done", "error"}
  \/ DieStep(c)

\* C35 as claimed: a step in which one connection fails leaves every other
\* connection as it was: alive flag, state and sockets, registry membership
\* and both loops, which go on running.
C35_FailureIsIsolated ==
  [][\A c \in Conns :
       FailureStep(c)
         => \A b \in Conns \ {c} :
               /\ clients'[b] = clients[b]
               /\ Registered(b)' <=> Registered(b)
               /\ loops'[b] = loops[b]
               /\ cancelling'[b] = cancelling[b]
               /\ (\E d \in Dirs : loops[b][d] \in InLoop) => Running']_vars

\* die has raised inside kill_all on connection c, whose upstream connect
\* was pending, and the process has ended while the other connection was
\* alive and inside both its loops.
C35_Witness ==
  /\ ~Running
  /\ \E c \in Conns : \E b \in Conns \ {c} :
       /\ ~clients[c].alive /\ Registered(c)
       /\ clients[b].alive
       /\ \A d \in Dirs : loops[b][d] \in InLoop

\* C38 as claimed: an accepted connection is in the registry exactly when
\* its alive flag is true, and no other connection is in the registry.
C38_RegisteredIffAlive ==
  \A c \in Conns : Registered(c) <=> (Accepted(c) /\ clients[c].alive)

\* die was called on a connection whose upstream socket did not exist yet:
\* alive is false, the client socket is closed, and the connection is
\* still in the registry.
C38_Witness ==
  \E c \in Conns :
     /\ ~clients[c].alive
     /\ clients[c].client_writer = "None"
     /\ clients[c].writer_closed = 1
     /\ Registered(c)

\* C39 as claimed: once die has taken effect on a connection, none of its
\* loops passes a further frame to the plugins or to a writer.
C39_NoDispatchAfterDie ==
  [][\A c \in Conns :
       (Accepted(c) /\ ~clients[c].alive)
         => /\ rlog'[c] = rlog[c]
            /\ wlog'[c] = wlog[c]]_vars

\* A hook rejected the first frame of a client and called die; the frame
\* buffered behind it was then passed to the hooks and written upstream.
C39_Witness ==
  \E c \in Conns :
     /\ ~shutting_down
     /\ ~clients[c].alive
     /\ clients[c].removed = 1
     /\ Len(rlog[c]["TO_SERVER"]) = 2
     /\ rlog[c]["TO_SERVER"][1][2] = FALSE
     /\ rlog[c]["TO_SERVER"][2][2] = TRUE
     /\ Len(wlog[c]["TO_SERVER"]) = 1
====
